---- MODULE Spec2Model ----
(***************************************************************************)
(* Order pipeline and rate limiting of the Secure-Ecommerce-Application.   *)
(*                                                                         *)
(* Orders: backend/routes/orders.js (src/backend/routes/products.js from   *)
(* line 382) on top of the Order schema (src/backend/models/User.js from   *)
(* line 237) and the middleware of src/unnamed/part_005.                   *)
(*                                                                         *)
(* Time is counted in ticks; DayLen ticks make one day.  An instant is a   *)
(* number of ticks since an epoch that is a Sunday, 00:00 UTC.  The server *)
(* runs in a time zone tz ticks east of UTC.                               *)
(***************************************************************************)
EXTENDS Integers, Sequences, FiniteSets, TLC

\* ------------------------------------------------------------------ bounds
DayLen == 2          \* ticks per day
MaxOrders == 1       \* documents the order collection can hold
MaxTicks == 2        \* ticks the clock advances after the first instant
MaxFields == 1       \* fields a PUT body carries at most

FirstDay == 5        \* the first instant is 00:00 UTC of this day (a Friday)

Users == {"auth0|alice", "auth0|bob"}
NoUser == "anonymous"            \* a request without a verifiable bearer token
TimeZones == {-1, 0, 1}          \* server offsets from UTC, in ticks

\* ------------------------------------------------------- catalog and enums
\* two of the sixteen catalog entries, prices in cents
Products == {"Laptop - Dell XPS 13", "Smartphone - iPhone 15"}
PRODUCT_PRICES ==
  [p \in Products |->
     IF p = "Laptop - Dell XPS 13" THEN 129999 ELSE 79999]

DeliveryTimes == {"10:00 AM", "11:00 AM", "12:00 PM"}
DeliveryLocations == {"Colombo", "Kandy"}          \* two of the 25 districts
Statuses == {"pending", "confirmed", "processing", "shipped", "delivered", "cancelled"}

\* ------------------------------------------------------------------ dates
\* new Date("yyyy-MM-dd"): a date-only ISO string is midnight UTC of that day
ParseDate(day) == day * DayLen

\* d.setHours(0,0,0,0): midnight of the LOCAL day the instant falls in; the
\* local day is all the comparisons below look at
LocalDay(t, zone) == (t + zone) \div DayLen

\* Date.prototype.getDay() of a local day; 0 is Sunday
GetDay(localDay) == localDay % 7

\* the two rules of the deliveryDate validators, on an instant
DateNotPast(t, nowT, zone) == LocalDay(t, zone) >= LocalDay(nowT, zone)
DateNotSunday(t, zone) == GetDay(LocalDay(t, zone)) # 0

\* orderSchema.deliveryDate validate.validator
deliveryDateValidator(t, nowT, zone) ==
  IF ~DateNotPast(t, nowT, zone) THEN FALSE
  ELSE IF ~DateNotSunday(t, zone) THEN FALSE
  ELSE TRUE

\* --------------------------------------------------------------- messages
\* A message is a sequence of tokens.
OpenTag == "<script>"
CloseTag == "</script>"
JsUri == "javascript:"
OnAttr == "onclick="
Text == "alert(1)"

RECURSIVE IndexOf(_, _, _)
\* least i >= from with s[i] = tok, 0 when there is none
IndexOf(s, tok, from) ==
  IF from > Len(s) THEN 0
  ELSE IF s[from] = tok THEN from
  ELSE IndexOf(s, tok, from + 1)

RECURSIVE RemoveScriptBlocks(_)
\* .replace(/<script\b[^<]*(?:(?!<\/script>)<[^<]*)*<\/script>/gi, ''):
\* every <script ...> up to the first </script> after it goes, left to right
RemoveScriptBlocks(s) ==
  IF s = <<>> THEN <<>>
  ELSE IF Head(s) = OpenTag /\ IndexOf(s, CloseTag, 2) # 0
       THEN RemoveScriptBlocks(SubSeq(s, IndexOf(s, CloseTag, 2) + 1, Len(s)))
       ELSE <<Head(s)>> \o RemoveScriptBlocks(Tail(s))

RemoveToken(s, tok) == SelectSeq(s, LAMBDA x : x # tok)

\* the three replacements sanitize applies to one string
SanitizeString(s) ==
  RemoveToken(RemoveToken(RemoveScriptBlocks(s), JsUri), OnAttr)

\* /<script|<\/script|javascript:|on\w+\s*=/i.test(value)
XssPattern(s) ==
  \E i \in 1..Len(s) : s[i] \in {OpenTag, CloseTag, JsUri, OnAttr}

TokenLength(tok) ==
  CASE tok = OpenTag -> 8
    [] tok = CloseTag -> 9
    [] tok = JsUri -> 11
    [] tok = OnAttr -> 8
    [] OTHER -> 8

RECURSIVE StringLength(_)
StringLength(s) == IF s = <<>> THEN 0 ELSE TokenLength(Head(s)) + StringLength(Tail(s))

\* ------------------------------------------------------- order documents
\* A document is a function from the paths it has to their values; a path
\* that is undefined is not in its domain.
Has(doc, path) == path \in DOMAIN doc

Suffixes == {"K3F9A"}      \* Math.random().toString(36).substr(2, 5).toUpperCase()

\* canBeModifiedBy without the status test
canBeModifiedBy_OwnerOnly(order, userId) ==
  order.userId = userId

\* orderSchema.methods.canBeModifiedBy
canBeModifiedBy(order, userId) ==
  order.userId = userId /\ order.status \in {"pending", "confirmed"}

\* a method that lets the owner cancel whatever has not left the warehouse
canBeCancelledBy_NotShipped(order, userId) ==
  order.userId = userId /\ order.status \notin {"shipped", "delivered"}

\* orderSchema.methods.canBeCancelledBy
canBeCancelledBy(order, userId) ==
  order.userId = userId /\ order.status \in {"pending", "confirmed", "processing"}

\* orderSchema.message: maxlength and validate.validator
messageValidator(v) == v = <<>> \/ ~XssPattern(v)

\* The schema's validators, path by path: the set of paths of doc that fail.
\* A required path fails when it is undefined; a validator runs on a path
\* that has a value.
SchemaErrors(doc, paths, nowT, zone) ==
  { p \in paths :
      CASE p = "userId" -> ~Has(doc, p) \/ doc[p] \notin Users
        [] p = "orderNumber" -> ~Has(doc, p) \/ doc[p] = <<>>
        [] p = "productName" -> ~Has(doc, p) \/ doc[p] \notin Products
        [] p = "quantity" -> ~Has(doc, p) \/ doc[p] < 1 \/ doc[p] > 10
        [] p = "deliveryDate" -> ~Has(doc, p) \/ ~deliveryDateValidator(doc[p], nowT, zone)
        [] p = "deliveryTime" -> ~Has(doc, p) \/ doc[p] \notin DeliveryTimes
        [] p = "deliveryLocation" -> ~Has(doc, p) \/ doc[p] \notin DeliveryLocations
        [] p = "message" -> Has(doc, p) /\ (StringLength(doc[p]) > 500 \/ ~messageValidator(doc[p]))
        [] p = "status" -> Has(doc, p) /\ doc[p] \notin Statuses
        [] p = "unitPrice" -> ~Has(doc, p) \/ doc[p] < 0
        [] p = "totalPrice" -> ~Has(doc, p) \/ doc[p] < 0
        [] OTHER -> FALSE }

SchemaPaths ==
  {"userId", "orderNumber", "productName", "quantity", "deliveryDate", "deliveryTime",
   "deliveryLocation", "message", "status", "unitPrice", "totalPrice", "updatedAt"}

\* the hook with the total taken as unit price plus quantity
PreSave_SumPrice(doc, nowT, suffix) ==
  [p \in DOMAIN doc \cup {"updatedAt", "totalPrice", "orderNumber"} |->
     CASE p = "updatedAt" -> nowT
       [] p = "totalPrice" -> doc.unitPrice + doc.quantity
       [] p = "orderNumber" ->
            IF ~Has(doc, "orderNumber") \/ doc.orderNumber = <<>>
            THEN <<"ORD", nowT, suffix>> ELSE doc.orderNumber
       [] OTHER -> doc[p]]

\* the hook generating an order number on every save
PreSave_NewNumber(doc, nowT, suffix) ==
  [p \in DOMAIN doc \cup {"updatedAt", "totalPrice", "orderNumber"} |->
     CASE p = "updatedAt" -> nowT
       [] p = "totalPrice" -> doc.unitPrice * doc.quantity
       [] p = "orderNumber" -> <<"ORD", nowT, suffix>>
       [] OTHER -> doc[p]]

\* orderSchema.pre('save'): runs after the document has passed validation
PreSave(doc, nowT, suffix) ==
  [p \in DOMAIN doc \cup {"updatedAt", "totalPrice", "orderNumber"} |->
     CASE p = "updatedAt" -> nowT
       [] p = "totalPrice" -> doc.unitPrice * doc.quantity
       [] p = "orderNumber" ->
            IF ~Has(doc, "orderNumber") \/ doc.orderNumber = <<>>
            THEN <<"ORD", nowT, suffix>> ELSE doc.orderNumber
       [] OTHER -> doc[p]]

\* document.save(): the built-in validation hook runs first, over every path
\* of the document, then the schema's pre('save') hook, then the write.
\* The result is the error or the document to write.
Save(doc, nowT, zone, suffix) ==
  LET errs == SchemaErrors(doc, SchemaPaths, nowT, zone)
  IN IF errs # {} THEN [ok |-> FALSE, errors |-> errs]
     ELSE [ok |-> TRUE, doc |-> PreSave(doc, nowT, suffix)]

\* metadata of orderData: req.ip, req.get('User-Agent'), req.session?.id
RequestMetadata ==
  [ipAddress |-> "10.0.0.1", userAgent |-> "Mozilla/5.0", sessionId |-> "s%3Aq1w2e3"]

\* orderSchema's toJSON transform: what res.json sends of a document
toJSON(doc) ==
  [p \in DOMAIN doc |->
     IF p = "metadata"
     THEN [k \in DOMAIN doc.metadata \ {"ipAddress", "userAgent", "sessionId"} |-> doc.metadata[k]]
     ELSE doc[p]]

\* ------------------------------------------------------------------ state
VARIABLES
  orders,     \* the order collection: a sequence of documents, _id = index
  now,        \* the current instant
  tz,         \* the server's time zone
  resp,       \* the last request and the response it got
  requests,   \* RateLimiter.requests: the instants of the calls let through
  limiterMax, \* max of limiter: RATE_LIMIT_MAX_REQUESTS or the default
  store,      \* limiter's store: per client the hits and the window's end
  authStore,  \* authRateLimit's store
  calls,      \* per caller, the calls made so far and what became of them
  nodeEnv,    \* process.env.NODE_ENV
  gate,       \* the last request at the routers and the answer it got there
  sent,       \* the orders in the body of the response being sent
  flight,     \* per request inside limiter: how far it is and what it was told
  client,     \* the browser: localStorage, location and the last API call
  handlers    \* per request being handled between two awaits: what it holds

rlvars == <<requests, limiterMax, store, authStore, calls>>

gatevars == <<nodeEnv, gate>>
auxvars == <<flight, client, handlers>>

vars == <<orders, now, tz, resp, requests, limiterMax, store, authStore, calls,
          nodeEnv, gate, sent, flight, client, handlers>>

\* resp: the request being answered (method, caller, :id, body as sent) and
\* the answer (status code, error, details); method "none" between requests
NoResponse ==
  [method |-> "none", user |-> NoUser, id |-> 0, body |-> <<>>, code |-> 0, error |-> "", details |-> {}]

Response(method, user, id, body, code, error, details) ==
  [method |-> method, user |-> user, id |-> id, body |-> body, code |-> code,
   error |-> error, details |-> details]

Idle == resp.method = "none"

\* ---------------------------------------------------------- rate limits
\* Instants of the limiters are counted in ticks of `now', a tick being the
\* 15 minutes of authRateLimit's windowMs.
AuthWindowTicks == 1       \* authRateLimit: windowMs, 15 * 60 * 1000
WindowTicks == 2           \* limiter: windowMs, a RATE_LIMIT_WINDOW_MS of two ticks
ClientWindowTicks == 2     \* windowMs of the RateLimiter instance
ClientMaxRequests == 2     \* maxRequests of the RateLimiter instance
MaxCalls == 5              \* calls of limiters in one behaviour
SmallMax == 2              \* a small RATE_LIMIT_MAX_REQUESTS

DefaultMax == 100          \* parseInt(process.env.RATE_LIMIT_MAX_REQUESTS) || 100
AuthMax == 5               \* authRateLimit: max

\* req.ip of the clients of the server, and the browser holding a RateLimiter
Clients == {"10.0.0.1", "10.0.0.2"}
Browser == "browser"
Routes == {"auth", "orders"}

\* RateLimiter.canMakeRequest with a full list still taking one more call
canMakeRequest_OneMore(reqs, nowT) ==
  LET kept == SelectSeq(reqs, LAMBDA time : nowT - time < ClientWindowTicks)
  IN IF Len(kept) > ClientMaxRequests
     THEN [requests |-> kept, result |-> FALSE]
     ELSE [requests |-> Append(kept, nowT), result |-> TRUE]

\* a limiter that records the calls it refuses
canMakeRequest_RecordRefused(reqs, nowT) ==
  LET kept == SelectSeq(reqs, LAMBDA time : nowT - time < ClientWindowTicks)
  IN IF Len(kept) >= ClientMaxRequests
     THEN [requests |-> Append(Tail(kept), nowT), result |-> FALSE]
     ELSE [requests |-> Append(kept, nowT), result |-> TRUE]

\* a limiter whose window is one tick short
canMakeRequest_ShortWindow(reqs, nowT) ==
  LET kept == SelectSeq(reqs, LAMBDA time : nowT - time < ClientWindowTicks - 1)
  IN IF Len(kept) >= ClientMaxRequests
     THEN [requests |-> kept, result |-> FALSE]
     ELSE [requests |-> Append(kept, nowT), result |-> TRUE]

\* RateLimiter.canMakeRequest: the list after the call and the value returned
canMakeRequest(reqs, nowT) ==
  LET kept == SelectSeq(reqs, LAMBDA time : nowT - time < ClientWindowTicks)
  IN IF Len(kept) >= ClientMaxRequests
     THEN [requests |-> kept, result |-> FALSE]
     ELSE [requests |-> Append(kept, nowT), result |-> TRUE]

\* A store of rateLimit(...): per key the hits of the current window and the
\* instant it ends; a key whose window has ended has no record.
NoRecord == [hits |-> 0, resetTime |-> 0]
EmptyStore == [c \in Clients |-> NoRecord]

\* store.increment(key): the first hit of a key opens its window
Increment(st, key, nowT, windowMs) ==
  [st EXCEPT ![key] =
     IF @.resetTime <= nowT
     THEN [hits |-> 1, resetTime |-> nowT + windowMs]
     ELSE [hits |-> @.hits + 1, resetTime |-> @.resetTime]]

\* skipSuccessfulRequests with the hit of a successful request kept
Decrement_Keep(st, key, nowT) ==
  st

\* store.decrement(key), called when a response with a status below 400 has
\* been sent (skipSuccessfulRequests)
Decrement(st, key, nowT) ==
  IF st[key].resetTime <= nowT \/ st[key].hits = 0 THEN st
  ELSE [st EXCEPT ![key].hits = @ - 1]

\* ------------------------------------------------------ the token gate
\* A bearer token as jwtVerify sees it: the subject it names and whether its
\* signature, issuer and audience stand the verification.
Token(sub, sig, iss, aud) == [sub |-> sub, sig |-> sig, iss |-> iss, aud |-> aud]
EmptyToken == Token("", FALSE, FALSE, FALSE)
Tokens ==
  {Token(u, TRUE, TRUE, TRUE) : u \in Users}
    \cup {Token("auth0|alice", FALSE, TRUE, TRUE), Token("auth0|alice", TRUE, FALSE, TRUE),
          Token("auth0|alice", TRUE, TRUE, FALSE)}

\* req.headers.authorization: absent, or a scheme followed by a token
NoHeader == [scheme |-> "", token |-> EmptyToken]
Headers ==
  {NoHeader}
    \cup {[scheme |-> "Bearer ", token |-> t] : t \in Tokens \cup {EmptyToken}}
    \cup {[scheme |-> "Basic ", token |-> t] : t \in {Token("auth0|alice", TRUE, TRUE, TRUE)}}

NodeEnvs == {"development", "production", "test"}

\* jwtVerify without the audience option
jwtVerify_NoAudience(token) ==
  IF ~token.sig THEN "signature verification failed"
  ELSE IF ~token.iss THEN "unexpected iss claim value"
  ELSE ""

\* jwtVerify(token, JWKS, { issuer, audience }): the message of the error it
\* throws, "" when the token stands
jwtVerify(token) ==
  IF ~token.sig THEN "signature verification failed"
  ELSE IF ~token.iss THEN "unexpected iss claim value"
  ELSE IF ~token.aud THEN "unexpected aud claim value"
  ELSE ""

\* a verifier that hides the details in production only
verifyToken_NotProduction(header, env) ==
  IF header.scheme # "Bearer "
  THEN [ok |-> FALSE, sub |-> NoUser, status |-> 401, details |-> "",
        error |-> "Access denied. No token provided or invalid format."]
  ELSE IF header.token = EmptyToken
  THEN [ok |-> FALSE, sub |-> NoUser, status |-> 401, details |-> "",
        error |-> "Access denied. Token is empty."]
  ELSE IF jwtVerify(header.token) # ""
  THEN [ok |-> FALSE, sub |-> NoUser, status |-> 401, error |-> "Invalid token",
        details |-> IF env # "production" THEN jwtVerify(header.token) ELSE ""]
  ELSE [ok |-> TRUE, sub |-> header.token.sub, status |-> 0, details |-> "", error |-> ""]

\* verifyToken: next() with req.user set, or the 401 it answers
verifyToken(header, env) ==
  IF header.scheme # "Bearer "
  THEN [ok |-> FALSE, sub |-> NoUser, status |-> 401, details |-> "",
        error |-> "Access denied. No token provided or invalid format."]
  ELSE IF header.token = EmptyToken
  THEN [ok |-> FALSE, sub |-> NoUser, status |-> 401, details |-> "",
        error |-> "Access denied. Token is empty."]
  ELSE IF jwtVerify(header.token) # ""
  THEN [ok |-> FALSE, sub |-> NoUser, status |-> 401, error |-> "Invalid token",
        details |-> IF env = "development" THEN jwtVerify(header.token) ELSE ""]
  ELSE [ok |-> TRUE, sub |-> header.token.sub, status |-> 0, details |-> "", error |-> ""]

\* The routes of the routers and whether verifyToken stands before the
\* handler: by router.use for /api/orders, route by route for /api/auth,
\* nowhere for /api/products.
Route(router, method, path, verify) ==
  [router |-> router, method |-> method, path |-> path, verify |-> verify]
Endpoints ==
  {Route("auth", "POST", "/profile", TRUE), Route("auth", "GET", "/me", TRUE),
   Route("auth", "PUT", "/profile", TRUE), Route("auth", "POST", "/logout", TRUE),
   Route("auth", "GET", "/status", TRUE),
   Route("products", "GET", "/", FALSE), Route("products", "GET", "/:id", FALSE),
   Route("products", "GET", "/categories/list", FALSE),
   Route("products", "GET", "/config/delivery", FALSE),
   Route("products", "GET", "/search/:term", FALSE),
   Route("orders", "GET", "/", TRUE), Route("orders", "GET", "/stats", TRUE),
   Route("orders", "GET", "/:id", TRUE), Route("orders", "POST", "/", TRUE),
   Route("orders", "PUT", "/:id", TRUE), Route("orders", "DELETE", "/:id", TRUE),
   Route("orders", "GET", "/products/list", TRUE)}

\* gate: the request (route, header), the stage that answered it ("" when the
\* route handler ran), and the status, error, details and stack of an answer
\* given before the handler
NoGate ==
  [route |-> Route("", "", "", FALSE), header |-> NoHeader, by |-> "", handler |-> FALSE,
   sub |-> NoUser, status |-> 0, error |-> "", details |-> "", stack |-> ""]

\* ------------------------------------------------ requests inside limiter
\* The requests that can be inside the limiter middleware at once, and the
\* client each comes from.
MaxRacers == 4
Racers == 1..MaxRacers
RacerClient(r) == IF r % 4 = 0 THEN "10.0.0.2" ELSE "10.0.0.1"

\* a request before it arrives: pc is where it is in the middleware, left is
\* what the client had left when it arrived, window the end of the window
\* then (0 when none was open), hits and resetTime what store.increment told
NoFlight == [pc |-> "idle", left |-> 0, window |-> 0, hits |-> 0, resetTime |-> 0]
NoFlights == [r \in Racers |-> NoFlight]

\* ------------------------------------------------------------ the browser
\* localStorage['auth0_token'] ("" when absent), window.location, and the
\* last call through apiClient: the Authorization header it carried, the
\* status of the response (0 when there was none), how often it was sent,
\* and whether its promise was rejected
\* a call through apiClient that has been answered; pending holds the
\* Authorization headers of the calls sent and not yet answered
NoApiCall == [authorization |-> <<>>, status |-> 0, sends |-> 0, rejected |-> FALSE]
NoClient == [token |-> "", location |-> "/", pending |-> <<>>, last |-> NoApiCall]

\* ------------------------------------------------- handlers between awaits
\* The requests the server can be handling at once.  A handler that awaits
\* holds what it has read: kind is the route, pc the await it stands at, doc
\* the document findById gave it, body the request's body as sent, updates
\* what it is about to write, code the status of its answer (0 before it
\* answers).
MaxHandlers == 2
HandlerIds == 1..MaxHandlers
NoHandler ==
  [kind |-> "none", pc |-> "none", user |-> NoUser, id |-> 0, body |-> <<>>, doc |-> <<>>,
   updates |-> <<>>, code |-> 0]
NoHandlers == [h \in HandlerIds |-> NoHandler]

NoCalls == [c \in Clients \cup {Browser} |-> <<>>]

Init ==
  /\ orders = <<>>
  /\ now = ParseDate(FirstDay)
  /\ tz \in TimeZones
  /\ resp = NoResponse
  /\ requests = <<>>
  /\ limiterMax = DefaultMax
  /\ store = EmptyStore
  /\ authStore = EmptyStore
  /\ calls = NoCalls
  /\ nodeEnv = "production"
  /\ gate = NoGate
  /\ sent = <<>>
  /\ flight = NoFlights
  /\ client = NoClient
  /\ handlers = NoHandlers

\* ids a request can name: 0 is a string that is no ObjectId
Ids == 0..MaxOrders

\* the days a date-only string of a request can name
ReqDays == FirstDay..(FirstDay + 3)

SeedProducts == {"Smartphone - iPhone 15"}
SeedQuantities == {3}

\* ---------------------------------------------------------- request bodies
\* A body is a function from the fields it carries to their values.  A
\* deliveryDate is a string: [iso |-> TRUE, day |-> d] is "yyyy-MM-dd" naming
\* day d, [iso |-> FALSE, day |-> 0] a string that is no ISO 8601 date.
NotADate == [iso |-> FALSE, day |-> 0]
DateInputs == {[iso |-> TRUE, day |-> d] : d \in ReqDays} \cup {NotADate}
TimeInputs == {"11:00 AM", "9:00 PM"}
LocationInputs == {"Kandy", "Atlantis"}
MessageInputs == {<<Text>>, <<OpenTag, Text, CloseTag>>, <<OpenTag, Text>>}

UpdateFields == {"deliveryDate", "deliveryTime", "deliveryLocation", "message"}

FullUpdateBodies ==
  [deliveryDate : DateInputs, deliveryTime : TimeInputs,
   deliveryLocation : LocationInputs, message : MessageInputs]

\* PUT bodies: every choice of at most MaxFields of the four fields
UpdateBodies ==
  { [k \in S |-> full[k]] :
      full \in FullUpdateBodies,
      S \in {T \in SUBSET UpdateFields : Cardinality(T) <= MaxFields} }

\* POST bodies: a body the validators accept on the first day, with at most
\* one field replaced, or without its message
ValidCreateBody ==
  [productName |-> "Laptop - Dell XPS 13", quantity |-> 2,
   deliveryDate |-> [iso |-> TRUE, day |-> FirstDay + 1], deliveryTime |-> "10:00 AM",
   deliveryLocation |-> "Colombo", message |-> <<Text>>]

\* a body that also names what the server decides: all five fields, or the
\* two that a client would gain most from
ClientDecided == {"unitPrice", "totalPrice", "userId", "status", "orderNumber"}
ForgedFields ==
  [unitPrice |-> 1, totalPrice |-> 1, userId |-> "auth0|bob", status |-> "delivered",
   orderNumber |-> <<"ORD", 0, "FORGED">>]
ForgedBodies ==
  {ValidCreateBody @@ [k \in S |-> ForgedFields[k]] : S \in {ClientDecided, {"unitPrice", "status"}}}

CreateBodies ==
  {ValidCreateBody, [k \in DOMAIN ValidCreateBody \ {"message"} |-> ValidCreateBody[k]]}
  \cup {[ValidCreateBody EXCEPT !.productName = v] : v \in {"Toaster"}}
  \cup {[ValidCreateBody EXCEPT !.quantity = v] : v \in {11}}
  \cup {[ValidCreateBody EXCEPT !.deliveryDate = v] : v \in DateInputs}
  \cup {[ValidCreateBody EXCEPT !.deliveryTime = v] : v \in TimeInputs \ DeliveryTimes}
  \cup {[ValidCreateBody EXCEPT !.deliveryLocation = v] : v \in LocationInputs \ DeliveryLocations}
  \cup {[ValidCreateBody EXCEPT !.message = v] : v \in MessageInputs}
  \cup ForgedBodies

\* sanitizeInput: every string of the body goes through the three
\* replacements; of the strings of this model only a message carries markup
sanitizeInput(body) ==
  [k \in DOMAIN body |-> IF k = "message" THEN SanitizeString(body[k]) ELSE body[k]]

\* the deliveryDate chain of both routes: isISO8601(), then the custom check
DateChainErrors(value, nowT, zone) ==
  IF ~value.iso THEN {"Invalid value"}
  ELSE IF ~DateNotPast(ParseDate(value.day), nowT, zone)
    THEN {"Delivery date must be today or in the future"}
  ELSE IF ~DateNotSunday(ParseDate(value.day), zone)
    THEN {"Delivery date cannot be Sunday"}
  ELSE {}

\* the message chain of both routes: optional(), isLength, the custom check
MessageChainErrors(body) ==
  IF ~Has(body, "message") THEN {}
  ELSE (IF StringLength(body.message) > 500 THEN {"Message cannot exceed 500 characters"} ELSE {})
       \cup (IF body.message # <<>> /\ XssPattern(body.message)
             THEN {"Message contains invalid characters"} ELSE {})

TimeError == "Delivery time must be 10:00 AM, 11:00 AM, or 12:00 PM"
LocationError == "Invalid delivery location"

\* the validation chains of router.post('/')
CreateValidationErrors(body, nowT, zone) ==
  (IF Has(body, "productName") /\ body.productName \in Products THEN {} ELSE {"Invalid product selection"})
  \cup (IF Has(body, "quantity") /\ body.quantity >= 1 /\ body.quantity <= 10
        THEN {} ELSE {"Quantity must be between 1 and 10"})
  \cup (IF Has(body, "deliveryDate") THEN DateChainErrors(body.deliveryDate, nowT, zone) ELSE {"Invalid value"})
  \cup (IF Has(body, "deliveryTime") /\ body.deliveryTime \in DeliveryTimes THEN {} ELSE {TimeError})
  \cup (IF Has(body, "deliveryLocation") /\ body.deliveryLocation \in DeliveryLocations
        THEN {} ELSE {LocationError})
  \cup MessageChainErrors(body)

\* the validation chains of router.put('/:id'): every field optional()
UpdateValidationErrors(body, nowT, zone) ==
  (IF Has(body, "deliveryDate") THEN DateChainErrors(body.deliveryDate, nowT, zone) ELSE {})
  \cup (IF Has(body, "deliveryTime") /\ body.deliveryTime \notin DeliveryTimes THEN {TimeError} ELSE {})
  \cup (IF Has(body, "deliveryLocation") /\ body.deliveryLocation \notin DeliveryLocations
        THEN {LocationError} ELSE {})
  \cup MessageChainErrors(body)

\* the messages of a mongoose ValidationError, one per failing path
SchemaMessage(p) ==
  CASE p = "orderNumber" -> "Path orderNumber is required."
    [] p = "totalPrice" -> "Path totalPrice is required."
    [] p = "deliveryDate" -> "Delivery date must be on or after today and cannot be Sunday"
    [] p = "message" -> "Message contains invalid characters"
    [] OTHER -> p

\* ------------------------------------------------------------ environment
\* time passes
Tick ==
  /\ Idle
  /\ now < ParseDate(FirstDay) + MaxTicks
  /\ now' = now + 1
  /\ UNCHANGED <<orders, tz, resp>>
  /\ UNCHANGED rlvars
  /\ UNCHANGED gatevars
  /\ UNCHANGED auxvars
  /\ UNCHANGED sent

\* A document enters the collection outside the HTTP API (POST / cannot
\* store one, see CreateOrder), written through the model's save() with an
\* order number of its own: every path is valid at the instant of the write
\* and the hook has run.
StoredOrder(userId, productName, quantity, day) ==
  [userId |-> userId, productName |-> productName, quantity |-> quantity,
   deliveryDate |-> ParseDate(day), deliveryTime |-> "10:00 AM",
   deliveryLocation |-> "Colombo", message |-> <<>>, status |-> "pending",
   unitPrice |-> PRODUCT_PRICES[productName], metadata |-> RequestMetadata]

InsertOrder ==
  /\ Idle
  /\ Len(orders) < MaxOrders
  /\ \E u \in Users, p \in SeedProducts, q \in SeedQuantities, d \in ReqDays, sfx \in Suffixes :
       LET doc == [orderNumber |-> <<"ORD", now, sfx>>, totalPrice |-> 0, updatedAt |-> now]
                      @@ StoredOrder(u, p, q, d)
           res == Save(doc, now, tz, sfx)
       IN /\ res.ok
          /\ \A i \in 1..Len(orders) : orders[i].orderNumber # res.doc.orderNumber
          /\ orders' = Append(orders, res.doc)
  /\ UNCHANGED <<now, tz, resp>>
  /\ UNCHANGED rlvars
  /\ UNCHANGED gatevars
  /\ UNCHANGED auxvars
  /\ UNCHANGED sent

\* fulfilment moves an order through the status enum outside the HTTP API
SetStatus ==
  /\ Idle
  /\ \E i \in 1..Len(orders), s \in Statuses :
       /\ orders[i].status # s
       /\ orders' = [orders EXCEPT ![i] = [p \in DOMAIN @ |-> IF p = "status" THEN s ELSE @[p]]]
  /\ UNCHANGED <<now, tz, resp>>
  /\ UNCHANGED rlvars
  /\ UNCHANGED gatevars
  /\ UNCHANGED auxvars
  /\ UNCHANGED sent

\* ------------------------------------------------------------- GET /:id
\* verifyToken: a request without a verifiable token ends with 401
GetOrder(user, id) ==
  /\ Idle
  /\ resp' =
       IF user = NoUser THEN Response("GET", user, id, <<>>, 401, "Invalid token", {})
       ELSE IF id = 0 THEN Response("GET", user, id, <<>>, 400, "Invalid order ID format", {})
       ELSE IF id > Len(orders) THEN Response("GET", user, id, <<>>, 404, "Order not found", {})
       ELSE IF orders[id].userId # user
         THEN Response("GET", user, id, <<>>, 403, "Access denied. You can only access your own orders.", {})
       ELSE Response("GET", user, id, <<>>, 200, "", {})
  /\ UNCHANGED <<orders, now, tz>>
  /\ UNCHANGED rlvars
  /\ UNCHANGED gatevars
  /\ UNCHANGED auxvars
  /\ sent' = IF resp'.code = 200 THEN <<toJSON(orders[id])>> ELSE <<>>

\* --------------------------------------------------------------- POST /
\* orderData made of the whole body: a handler that trusts the client
OrderData_FromBody(user, body, nowT) ==
  LET own == [userId |-> user, productName |-> body.productName, quantity |-> body.quantity,
              deliveryDate |-> ParseDate(body.deliveryDate.day), deliveryTime |-> body.deliveryTime,
              deliveryLocation |-> body.deliveryLocation,
              message |-> IF Has(body, "message") THEN body.message ELSE <<>>,
              unitPrice |-> PRODUCT_PRICES[body.productName],
              metadata |-> RequestMetadata,
              status |-> "pending", updatedAt |-> nowT]
  IN [k \in (DOMAIN body \cap ClientDecided) |-> body[k]] @@ own

\* orderData of the handler, with the schema's defaults
OrderData(user, body, nowT) ==
  [userId |-> user, productName |-> body.productName, quantity |-> body.quantity,
   deliveryDate |-> ParseDate(body.deliveryDate.day), deliveryTime |-> body.deliveryTime,
   deliveryLocation |-> body.deliveryLocation,
   message |-> IF Has(body, "message") THEN body.message ELSE <<>>,
   unitPrice |-> PRODUCT_PRICES[body.productName],
   metadata |-> RequestMetadata,
   status |-> "pending", updatedAt |-> nowT]

CreateOrder(user, rawBody, suffix) ==
  LET body == sanitizeInput(rawBody)
      errs == CreateValidationErrors(body, now, tz)
      res == Save(OrderData(user, body, now), now, tz, suffix)
      duplicate == \E i \in 1..Len(orders) : orders[i].orderNumber = res.doc.orderNumber
  IN
  /\ Idle
  \* the collection of the model is full: no further document is written
  /\ (user # NoUser /\ errs = {} /\ res.ok /\ ~duplicate) => Len(orders) < MaxOrders
  /\ resp' =
       IF user = NoUser THEN Response("POST", user, 0, rawBody, 401, "Invalid token", {})
       ELSE IF errs # {} THEN Response("POST", user, 0, rawBody, 400, "Validation failed", errs)
       \* order.save() throws: error.name === 'ValidationError'
       ELSE IF ~res.ok
         THEN Response("POST", user, 0, rawBody, 400, "Validation failed", {SchemaMessage(p) : p \in res.errors})
       \* the unique index on orderNumber rejects the write
       ELSE IF duplicate THEN Response("POST", user, 0, rawBody, 500, "Failed to create order", {})
       ELSE Response("POST", user, Len(orders) + 1, rawBody, 201, "", {})
  /\ orders' = IF resp'.code = 201 THEN Append(orders, res.doc) ELSE orders
  /\ UNCHANGED <<now, tz>>
  /\ UNCHANGED rlvars
  /\ UNCHANGED gatevars
  /\ UNCHANGED auxvars
  /\ sent' = IF resp'.code = 201 THEN <<toJSON(res.doc)>> ELSE <<>>

\* ------------------------------------------------------------- PUT /:id
\* updates of the handler: the fields of the body among the four
Updates_WholeBody(body) ==
  [k \in DOMAIN body |->
     IF k = "deliveryDate" THEN ParseDate(body[k].day) ELSE body[k]]

\* updates of router.put('/:id')
Updates(body) ==
  [k \in DOMAIN body \cap UpdateFields |->
     IF k = "deliveryDate" THEN ParseDate(body[k].day) ELSE body[k]]

\* an update that also confirms the order
FindByIdAndUpdate_Confirm(order, updates, nowT) ==
  [p \in DOMAIN order |->
     IF p \in DOMAIN updates THEN updates[p]
     ELSE IF p = "updatedAt" THEN nowT
     ELSE IF p = "status" THEN "confirmed"
     ELSE order[p]]

\* Order.findByIdAndUpdate(id, updates, { new: true, runValidators: true }):
\* the validators of the updated paths run, then the paths are set and the
\* update timestamp is written
FindByIdAndUpdate(order, updates, nowT) ==
  [p \in DOMAIN order |->
     IF p \in DOMAIN updates THEN updates[p]
     ELSE IF p = "updatedAt" THEN nowT
     ELSE order[p]]

UpdateOrder(user, id, rawBody) ==
  LET body == sanitizeInput(rawBody)
      errs == UpdateValidationErrors(body, now, tz)
      updates == Updates(body)
      updErrs == SchemaErrors(updates, DOMAIN updates, now, tz)
  IN
  /\ Idle
  /\ resp' =
       IF user = NoUser THEN Response("PUT", user, id, rawBody, 401, "Invalid token", {})
       ELSE IF errs # {} THEN Response("PUT", user, id, rawBody, 400, "Validation failed", errs)
       ELSE IF id = 0 THEN Response("PUT", user, id, rawBody, 400, "Invalid order ID format", {})
       ELSE IF id > Len(orders) THEN Response("PUT", user, id, rawBody, 404, "Order not found", {})
       ELSE IF ~canBeModifiedBy(orders[id], user) THEN
         IF orders[id].userId # user
         THEN Response("PUT", user, id, rawBody, 403, "Access denied. You can only modify your own orders.", {})
         ELSE Response("PUT", user, id, rawBody, 400, "Order cannot be modified in its current status.", {})
       ELSE IF updErrs # {}
         THEN Response("PUT", user, id, rawBody, 400, "Validation failed", {SchemaMessage(p) : p \in updErrs})
       ELSE Response("PUT", user, id, rawBody, 200, "", {})
  /\ orders' =
       IF resp'.code = 200
       THEN [orders EXCEPT ![id] = FindByIdAndUpdate(@, updates, now)]
       ELSE orders
  /\ UNCHANGED <<now, tz>>
  /\ UNCHANGED rlvars
  /\ UNCHANGED gatevars
  /\ UNCHANGED auxvars
  /\ sent' = IF resp'.code = 200 THEN <<toJSON(orders'[id])>> ELSE <<>>

\* ---------------------------------------------------------- DELETE /:id
\* a handler that writes the status before the document is validated
CancelOrder_WriteFirst(user, id) ==
  LET res == Save([p \in DOMAIN orders[id] |->
                     IF p = "status" THEN "cancelled" ELSE orders[id][p]],
                  now, tz, CHOOSE sfx \in Suffixes : TRUE)
  IN
  /\ Idle
  /\ resp' =
       IF user = NoUser THEN Response("DELETE", user, id, <<>>, 401, "Invalid token", {})
       ELSE IF id = 0 THEN Response("DELETE", user, id, <<>>, 400, "Invalid order ID format", {})
       ELSE IF id > Len(orders) THEN Response("DELETE", user, id, <<>>, 404, "Order not found", {})
       ELSE IF ~canBeCancelledBy(orders[id], user) THEN
         IF orders[id].userId # user
         THEN Response("DELETE", user, id, <<>>, 403, "Access denied. You can only cancel your own orders.", {})
         ELSE Response("DELETE", user, id, <<>>, 400, "Order cannot be cancelled in its current status.", {})
       ELSE IF ~res.ok THEN Response("DELETE", user, id, <<>>, 500, "Failed to cancel order", {})
       ELSE Response("DELETE", user, id, <<>>, 200, "", {})
  /\ orders' = IF resp'.code = 200 THEN [orders EXCEPT ![id] = res.doc]
               ELSE IF resp'.code = 500 THEN [orders EXCEPT ![id].status = "cancelled"]
               ELSE orders
  /\ UNCHANGED <<now, tz>>
  /\ UNCHANGED rlvars
  /\ UNCHANGED gatevars
  /\ UNCHANGED auxvars
  /\ sent' = IF resp'.code = 200 THEN <<toJSON(orders'[id])>> ELSE <<>>

CancelOrder(user, id) ==
  LET res == Save([p \in DOMAIN orders[id] |->
                     IF p = "status" THEN "cancelled" ELSE orders[id][p]],
                  now, tz, CHOOSE sfx \in Suffixes : TRUE)
  IN
  /\ Idle
  /\ resp' =
       IF user = NoUser THEN Response("DELETE", user, id, <<>>, 401, "Invalid token", {})
       ELSE IF id = 0 THEN Response("DELETE", user, id, <<>>, 400, "Invalid order ID format", {})
       ELSE IF id > Len(orders) THEN Response("DELETE", user, id, <<>>, 404, "Order not found", {})
       ELSE IF ~canBeCancelledBy(orders[id], user) THEN
         IF orders[id].userId # user
         THEN Response("DELETE", user, id, <<>>, 403, "Access denied. You can only cancel your own orders.", {})
         ELSE Response("DELETE", user, id, <<>>, 400, "Order cannot be cancelled in its current status.", {})
       \* a ValidationError of order.save() is no CastError
       ELSE IF ~res.ok THEN Response("DELETE", user, id, <<>>, 500, "Failed to cancel order", {})
       ELSE Response("DELETE", user, id, <<>>, 200, "", {})
  /\ orders' = IF resp'.code = 200 THEN [orders EXCEPT ![id] = res.doc] ELSE orders
  /\ UNCHANGED <<now, tz>>
  /\ UNCHANGED rlvars
  /\ UNCHANGED gatevars
  /\ UNCHANGED auxvars
  /\ sent' = IF resp'.code = 200 THEN <<toJSON(orders'[id])>> ELSE <<>>

\* res.status(...).json(...): the response leaves and the request is over;
\* requests are handled one after the other
SendResponse ==
  /\ ~Idle
  /\ resp' = NoResponse
  /\ UNCHANGED <<orders, now, tz>>
  /\ UNCHANGED rlvars
  /\ UNCHANGED gatevars
  /\ UNCHANGED auxvars
  /\ sent' = <<>>

Callers == Users \cup {NoUser}


\* a request arrives when none is being answered
Next ==
  \/ \E u \in Callers, b \in CreateBodies, sfx \in Suffixes : CreateOrder(u, b, sfx)
  \/ \E u \in Callers, id \in Ids, b \in UpdateBodies : UpdateOrder(u, id, b)
  \/ \E u \in Callers, id \in Ids : CancelOrder(u, id)
  \/ \E u \in Callers, id \in Ids : GetOrder(u, id)
  \/ SendResponse
  \/ Tick
  \/ InsertOrder
  \/ SetStatus

Spec == Init /\ [][Next]_vars

\* ------------------------------------------------------------- GET /
\* req.query of GET /: page and limit after parseInt (limit 10 when absent),
\* status ("" when absent) and order
Pages == {1, 2}
Limits == {0, 1, 2, 10}
StatusInputs == {"", "pending", "shipped", "Pending"}
OrderInputs == {"desc", "asc"}
Queries == [page : Pages, limit : Limits, status : StatusInputs, order : OrderInputs]

\* what JSON.stringify makes of Infinity and NaN
Null == -1

\* Math.ceil(a / b)
Ceil(a, b) == IF b = 0 THEN Null ELSE (a + b - 1) \div b

Reverse(s) == [i \in 1..Len(s) |-> s[Len(s) + 1 - i]]

\* a query that leaves the owner out
FindIn_AllUsers(coll, userId, query) ==
  LET ids == [i \in 1..Len(coll) |-> i]
      match(i) == query.status \in Statuses => coll[i].status = query.status
      found == SelectSeq(ids, match)
  IN IF query.order = "desc" THEN Reverse(found) ELSE found

\* Order.find(query).sort(sortObj) on a collection: the positions of the
\* documents matching { userId, status }, by createdAt (the order of
\* insertion), descending unless order is 'asc'
FindIn(coll, userId, query) ==
  LET ids == [i \in 1..Len(coll) |-> i]
      match(i) == /\ coll[i].userId = userId
                  /\ query.status \in Statuses => coll[i].status = query.status
      found == SelectSeq(ids, match)
  IN IF query.order = "desc" THEN Reverse(found) ELSE found

Find(userId, query) == FindIn(orders, userId, query)

\* .limit(limit).skip((page - 1) * limit): limit(0) sets no limit
LimitSkip(ids, query) ==
  LET skip == (query.page - 1) * query.limit
      rest == IF skip >= Len(ids) THEN <<>> ELSE SubSeq(ids, skip + 1, Len(ids))
  IN IF query.limit = 0 \/ Len(rest) <= query.limit THEN rest
     ELSE SubSeq(rest, 1, query.limit)

ActiveStatuses == {"pending", "confirmed", "processing", "shipped"}

\* the filter of upcomingOrders: both dates at midnight of their local day
IsUpcoming(order, nowT, zone) ==
  LocalDay(order.deliveryDate, zone) >= LocalDay(nowT, zone) /\ order.status \in ActiveStatuses

\* the filter of pastOrders
IsPast(order, nowT, zone) ==
  \/ LocalDay(order.deliveryDate, zone) < LocalDay(nowT, zone)
  \/ order.status = "delivered"
  \/ order.status = "cancelled"

\* the body router.get('/') answers from a collection: the page as the lean
\* query returns it, its two parts (as positions of the page) and the
\* pagination
ListBody(coll, user, query, nowT, zone) ==
  LET found == FindIn(coll, user, query)
      ids == LimitSkip(found, query)
      page == [k \in 1..Len(ids) |-> coll[ids[k]]]
      positions == [k \in 1..Len(page) |-> k]
  IN [orders |-> page,
      upcomingOrders |-> SelectSeq(positions, LAMBDA k : IsUpcoming(page[k], nowT, zone)),
      pastOrders |-> SelectSeq(positions, LAMBDA k : IsPast(page[k], nowT, zone)),
      pagination |-> [currentPage |-> query.page,
                      totalPages |-> Ceil(Len(found), query.limit),
                      totalOrders |-> Len(found),
                      limit |-> query.limit]]

\* router.get('/')
ListOrders(user, query) ==
  LET body == ListBody(orders, user, query, now, tz)
  IN /\ Idle
     /\ resp' =
          IF user = NoUser THEN Response("GET /", user, 0, query, 401, "Invalid token", {})
          ELSE Response("GET /", user, 0, query, 200, "",
                        [currentPage |-> body.pagination.currentPage,
                         totalPages |-> body.pagination.totalPages,
                         totalOrders |-> body.pagination.totalOrders,
                         limit |-> body.pagination.limit,
                         upcomingOrders |-> body.upcomingOrders,
                         pastOrders |-> body.pastOrders])
     /\ sent' = IF user = NoUser THEN <<>> ELSE body.orders
     /\ UNCHANGED <<orders, now, tz>>
     /\ UNCHANGED rlvars
     /\ UNCHANGED gatevars
     /\ UNCHANGED auxvars

\* Order.getUserStats and the two counts of router.get('/stats') on a
\* collection: per status present the count and the total value, the number
\* of the user's orders, and of those due from this instant on and active
RECURSIVE SumTotalPrice(_, _)
SumTotalPrice(coll, S) ==
  IF S = {} THEN 0
  ELSE LET i == CHOOSE j \in S : TRUE IN coll[i].totalPrice + SumTotalPrice(coll, S \ {i})

StatsBody(coll, user, nowT) ==
  LET own == {i \in 1..Len(coll) : coll[i].userId = user}
      with(st) == {i \in own : coll[i].status = st}
  IN [totalOrders |-> Cardinality(own),
      upcomingOrders |->
        Cardinality({i \in own : coll[i].deliveryDate >= nowT /\ coll[i].status \in ActiveStatuses}),
      statusBreakdown |->
        [st \in {x \in Statuses : with(x) # {}} |->
           [count |-> Cardinality(with(st)),
            totalValue |-> SumTotalPrice(coll, with(st))]]]

\* router.get('/stats')
GetStats(user) ==
  /\ Idle
  /\ resp' =
       IF user = NoUser THEN Response("GET /stats", user, 0, <<>>, 401, "Invalid token", {})
       ELSE Response("GET /stats", user, 0, <<>>, 200, "", StatsBody(orders, user, now))
  /\ sent' = <<>>
  /\ UNCHANGED <<orders, now, tz>>
  /\ UNCHANGED rlvars
  /\ UNCHANGED gatevars
  /\ UNCHANGED auxvars

\* orders written before: two of one user and one of another, each through
\* save() with an order number of its own
ListOwners == <<"auth0|alice", "auth0|bob", "auth0|alice">>
ListSuffixes == <<"K3F9A", "Q7ZP2", "B81XM">>
ListDays == <<FirstDay + 1, FirstDay + 1, FirstDay>>
ListQuantities == <<3, 3, 1>>
ListCollection ==
  [i \in 1..Len(ListOwners) |->
     Save([orderNumber |-> <<"ORD", ParseDate(FirstDay), ListSuffixes[i]>>, totalPrice |-> 0,
           createdAt |-> ParseDate(FirstDay), updatedAt |-> ParseDate(FirstDay)]
            @@ StoredOrder(ListOwners[i], "Smartphone - iPhone 15", ListQuantities[i], ListDays[i]),
          ParseDate(FirstDay), 0, ListSuffixes[i]).doc]

InitList ==
  /\ orders = ListCollection
  /\ now = ParseDate(FirstDay)
  /\ tz \in TimeZones
  /\ resp = NoResponse
  /\ requests = <<>>
  /\ limiterMax = DefaultMax
  /\ store = EmptyStore
  /\ authStore = EmptyStore
  /\ calls = NoCalls
  /\ nodeEnv = "production"
  /\ gate = NoGate
  /\ sent = <<>>
  /\ flight = NoFlights
  /\ client = NoClient
  /\ handlers = NoHandlers

NextList ==
  \/ \E u \in Callers, q \in Queries : ListOrders(u, q)
  \/ \E u \in Callers, id \in 0..Len(ListOwners) : GetOrder(u, id)
  \/ \E u \in Callers : GetStats(u)
  \/ SendResponse
  \/ SetStatus
  \/ Tick

\* reading a collection of three orders that fulfilment moves on, as time
\* passes
SpecList == InitList /\ [][NextList]_vars

\* ------------------------------------------- PUT and DELETE, await by await
\* router.put('/:id') up to its second await: the validators, findById, the
\* ownership and status check on the document read, and the updates
BeginUpdate(h, user, id, rawBody) ==
  LET body == sanitizeInput(rawBody)
      code == IF UpdateValidationErrors(body, now, tz) # {} THEN 400
              ELSE IF id > Len(orders) THEN 404
              ELSE IF ~canBeModifiedBy(orders[id], user)
                THEN (IF orders[id].userId # user THEN 403 ELSE 400)
              ELSE 0
  IN /\ handlers[h].kind = "none"
     /\ id \in 1..MaxOrders
     /\ handlers' = [handlers EXCEPT ![h] =
                       [kind |-> "PUT", pc |-> IF code = 0 THEN "findByIdAndUpdate" ELSE "answered",
                        user |-> user, id |-> id,
                        body |-> IF code = 0 THEN rawBody ELSE <<>>,
                        doc |-> IF code = 0 THEN orders[id] ELSE <<>>,
                        updates |-> IF code = 0 THEN Updates(body) ELSE <<>>, code |-> code]]
     /\ UNCHANGED <<orders, now, tz, resp, sent, flight, client>>
     /\ UNCHANGED rlvars
     /\ UNCHANGED gatevars

\* await Order.findByIdAndUpdate(req.params.id, updates, ...): the document
\* as it is in the collection now gets the updates
WriteUpdate(h) ==
  LET r == handlers[h]
      updErrs == SchemaErrors(r.updates, DOMAIN r.updates, now, tz)
  IN /\ r.pc = "findByIdAndUpdate"
     /\ orders' = IF updErrs = {}
                  THEN [orders EXCEPT ![r.id] = FindByIdAndUpdate(@, r.updates, now)]
                  ELSE orders
     /\ handlers' = [handlers EXCEPT ![h].pc = "answered",
                                     ![h].code = IF updErrs = {} THEN 200 ELSE 400]
     /\ UNCHANGED <<now, tz, resp, sent, flight, client>>
     /\ UNCHANGED rlvars
     /\ UNCHANGED gatevars

\* router.delete('/:id') up to its second await: findById, the ownership and
\* status check, order.status = 'cancelled' on the document read
BeginCancel(h, user, id) ==
  LET code == IF id > Len(orders) THEN 404
              ELSE IF ~canBeCancelledBy(orders[id], user)
                THEN (IF orders[id].userId # user THEN 403 ELSE 400)
              ELSE 0
  IN /\ handlers[h].kind = "none"
     /\ id \in 1..MaxOrders
     /\ handlers' = [handlers EXCEPT ![h] =
                       [kind |-> "DELETE", pc |-> IF code = 0 THEN "save" ELSE "answered",
                        user |-> user, id |-> id, body |-> <<>>,
                        doc |-> IF code = 0
                                THEN [p \in DOMAIN orders[id] |->
                                        IF p = "status" THEN "cancelled" ELSE orders[id][p]]
                                ELSE <<>>,
                        updates |-> <<>>, code |-> code]]
     /\ UNCHANGED <<orders, now, tz, resp, sent, flight, client>>
     /\ UNCHANGED rlvars
     /\ UNCHANGED gatevars

\* await order.save(): the document read is validated, the hook runs, and the
\* paths that were modified on it (status, updatedAt) are written
SaveCancel(h) ==
  LET r == handlers[h]
      res == Save(r.doc, now, tz, CHOOSE sfx \in Suffixes : TRUE)
  IN /\ r.pc = "save"
     /\ orders' = IF res.ok
                  THEN [orders EXCEPT ![r.id] =
                          [p \in DOMAIN @ |->
                             IF p \in {"status", "updatedAt"} THEN res.doc[p] ELSE @[p]]]
                  ELSE orders
     /\ handlers' = [handlers EXCEPT ![h].pc = "answered",
                                     ![h].code = IF res.ok THEN 200 ELSE 500]
     /\ UNCHANGED <<now, tz, resp, sent, flight, client>>
     /\ UNCHANGED rlvars
     /\ UNCHANGED gatevars

\* the response has been sent
EndRequest(h) ==
  /\ handlers[h].pc = "answered"
  /\ handlers' = [handlers EXCEPT ![h] = NoHandler]
  /\ UNCHANGED <<orders, now, tz, resp, sent, flight, client>>
  /\ UNCHANGED rlvars
  /\ UNCHANGED gatevars

\* PUT bodies that also name fields the route does not update, with values
\* the schema would accept
FixedFields ==
  [productName |-> "Laptop - Dell XPS 13", quantity |-> 9, unitPrice |-> 1, totalPrice |-> 9,
   status |-> "delivered", orderNumber |-> <<"ORD", 0, "FORGED">>, userId |-> "auth0|bob",
   createdAt |-> 0]
ForgedUpdateBodies ==
  {FixedFields, [deliveryTime |-> "11:00 AM"] @@ FixedFields}

\* one stored order of alice, pending
InitConc ==
  /\ orders = SubSeq(ListCollection, 1, MaxOrders)
  /\ now = ParseDate(FirstDay)
  /\ tz = 0
  /\ resp = NoResponse
  /\ requests = <<>>
  /\ limiterMax = DefaultMax
  /\ store = EmptyStore
  /\ authStore = EmptyStore
  /\ calls = NoCalls
  /\ nodeEnv = "production"
  /\ gate = NoGate
  /\ sent = <<>>
  /\ flight = NoFlights
  /\ client = NoClient
  /\ handlers = NoHandlers

NextConc ==
  \/ \E h \in HandlerIds, u \in Users, id \in Ids, b \in UpdateBodies \cup ForgedUpdateBodies :
       BeginUpdate(h, u, id, b)
  \/ \E h \in HandlerIds : WriteUpdate(h)
  \/ \E h \in HandlerIds, u \in Users, id \in Ids : BeginCancel(h, u, id)
  \/ \E h \in HandlerIds : SaveCancel(h)
  \/ \E h \in HandlerIds : EndRequest(h)

\* updates and cancellations of stored orders, overlapping at their awaits
SpecConc == InitConc /\ [][NextConc]_vars

\* ------------------------------------------------------ enforceOwnership
\* userId as params, body or query can carry it: absent (""), or an id
UserIdInputs == Users \cup {"", "auth0|mallory"}
OwnershipRequests == [params : UserIdInputs, body : UserIdInputs, query : UserIdInputs]

\* req.params.userId || req.body.userId || req.query.userId
RequestedUserId(r) ==
  IF r.params # "" THEN r.params ELSE IF r.body # "" THEN r.body ELSE r.query

\* enforceOwnership: the status it answers, 0 when it calls next()
enforceOwnership(user, r) ==
  IF user = NoUser THEN [code |-> 401, error |-> "Authentication required"]
  ELSE IF RequestedUserId(r) # "" /\ RequestedUserId(r) # user
    THEN [code |-> 403, error |-> "Access denied. You can only access your own data."]
  ELSE [code |-> 0, error |-> ""]

\* a request reaches the middleware
EnforceOwnership(user, r) ==
  /\ Idle
  /\ resp' = Response("enforceOwnership", user, 0, r, enforceOwnership(user, r).code,
                      enforceOwnership(user, r).error, {})
  /\ UNCHANGED <<orders, now, tz, sent>>
  /\ UNCHANGED rlvars
  /\ UNCHANGED gatevars
  /\ UNCHANGED auxvars

NextOwnership ==
  \/ \E u \in Callers, r \in OwnershipRequests : EnforceOwnership(u, r)
  \/ SendResponse

\* requests at enforceOwnership, one after the other
SpecOwnership == InitList /\ [][NextOwnership]_vars

\* ------------------------------------------------- the limiters at work
RECURSIVE SumLen(_, _)
SumLen(f, S) ==
  IF S = {} THEN 0
  ELSE LET x == CHOOSE y \in S : TRUE IN Len(f[x]) + SumLen(f, S \ {x})

TotalCalls == SumLen(calls, DOMAIN calls)

Call(route, result) == [route |-> route, t |-> now, result |-> result]

\* the browser asks its RateLimiter whether it may send a request
ClientCall ==
  LET r == canMakeRequest(requests, now)
  IN /\ requests' = r.requests
     /\ calls' = [calls EXCEPT ![Browser] =
                    Append(@, Call("canMakeRequest", IF r.result THEN "passed" ELSE "refused"))]
     /\ UNCHANGED <<orders, now, tz, resp, limiterMax, store, authStore>>
     /\ UNCHANGED gatevars
     /\ UNCHANGED auxvars
     /\ UNCHANGED <<sent, flight>>
     /\ UNCHANGED client

\* A request of client c arrives: app.use(limiter) counts it and answers 429
\* above max; a request for /api/auth that got through then meets
\* router.use(authRateLimit), which does the same with its own store and,
\* having let the request through, waits for the response to be sent.
Arrive(c, route) ==
  LET st == Increment(store, c, now, WindowTicks)
      ast == Increment(authStore, c, now, AuthWindowTicks)
      result == IF st[c].hits > limiterMax THEN "429 limiter"
                ELSE IF route # "auth" THEN "passed"
                ELSE IF ast[c].hits > AuthMax THEN "429 authRateLimit"
                ELSE "in flight"
  IN /\ store' = st
     /\ authStore' = IF route = "auth" /\ result # "429 limiter" THEN ast ELSE authStore
     /\ calls' = [calls EXCEPT ![c] = Append(@, Call(route, result))]
     /\ UNCHANGED <<orders, now, tz, resp, limiterMax, requests>>
     /\ UNCHANGED gatevars
     /\ UNCHANGED auxvars
     /\ UNCHANGED sent
     /\ UNCHANGED auxvars

\* The response of an /api/auth request is sent (res 'finish'): with a status
\* below 400 the hit is taken back from authRateLimit's store.
Finish(c, i, ok) ==
  /\ i \in 1..Len(calls[c])
  /\ calls[c][i].result = "in flight"
  /\ calls' = [calls EXCEPT ![c][i].result = IF ok THEN "2xx" ELSE "4xx"]
  /\ authStore' = IF ok THEN Decrement(authStore, c, now) ELSE authStore
  /\ UNCHANGED <<orders, now, tz, resp, limiterMax, requests, store>>
  /\ UNCHANGED gatevars
  /\ UNCHANGED auxvars
  /\ UNCHANGED sent
  /\ UNCHANGED auxvars

InitRL ==
  /\ orders = <<>>
  /\ now = ParseDate(FirstDay)
  /\ tz = 0
  /\ resp = NoResponse
  /\ requests = <<>>
  /\ limiterMax = SmallMax
  /\ store = EmptyStore
  /\ authStore = EmptyStore
  /\ calls = NoCalls
  /\ nodeEnv = "production"
  /\ gate = NoGate
  /\ sent = <<>>
  /\ flight = NoFlights
  /\ client = NoClient
  /\ handlers = NoHandlers

NextRL ==
  \/ TotalCalls < MaxCalls /\ ClientCall
  \/ \E c \in Clients, route \in Routes : TotalCalls < MaxCalls /\ Arrive(c, route)
  \/ \E c \in Clients, i \in 1..MaxCalls, ok \in BOOLEAN : Finish(c, i, ok)
  \/ Tick

\* the server with RATE_LIMIT_MAX_REQUESTS = SmallMax, and a browser
SpecRL == InitRL /\ [][NextRL]_vars

InitAuth ==
  /\ orders = <<>>
  /\ now = ParseDate(FirstDay)
  /\ tz = 0
  /\ resp = NoResponse
  /\ requests = <<>>
  /\ limiterMax = DefaultMax
  /\ store = EmptyStore
  /\ authStore = EmptyStore
  /\ calls = NoCalls
  /\ nodeEnv = "production"
  /\ gate = NoGate
  /\ sent = <<>>
  /\ flight = NoFlights
  /\ client = NoClient
  /\ handlers = NoHandlers

NextAuth ==
  \/ \E c \in Clients, route \in Routes : TotalCalls <= AuthMax /\ Arrive(c, route)
  \/ \E c \in Clients, i \in 1..(AuthMax + 1), ok \in BOOLEAN : Finish(c, i, ok)
  \/ now < ParseDate(FirstDay) + AuthWindowTicks /\ Tick

\* the server as configured by default, taking AuthMax + 1 requests until
\* the first window of authRateLimit has ended
SpecAuth == InitAuth /\ [][NextAuth]_vars

\* ------------------------------------------- limiter, request by request
\* what the client has left in the window open at this instant
Left(c) == limiterMax - (IF store[c].resetTime <= now THEN 0 ELSE store[c].hits)

\* a limiter that counts from what the request saw when it arrived
TotalHits_AtArrival(st, key, left) ==
  limiterMax - left + 1

\* totalHits of the record store.increment(key) returns
TotalHits(st, key, left) ==
  st[key].hits

\* request r reaches app.use(limiter); the key is made before the store is asked
Enter(r) ==
  /\ flight[r].pc = "idle"
  /\ flight' = [flight EXCEPT ![r] =
                  [NoFlight EXCEPT !.pc = "arrived", !.left = Left(RacerClient(r)),
                                   !.window = IF store[RacerClient(r)].resetTime <= now
                                              THEN 0 ELSE store[RacerClient(r)].resetTime]]
  /\ UNCHANGED <<orders, now, tz, resp, requests, limiterMax, store, authStore, calls>>
  /\ UNCHANGED gatevars
  /\ UNCHANGED <<sent, client, handlers>>

\* await store.increment(key): the hit is counted and the count handed back
Count(r) ==
  LET st == Increment(store, RacerClient(r), now, WindowTicks)
  IN /\ flight[r].pc = "arrived"
     /\ store' = st
     /\ flight' = [flight EXCEPT ![r].pc = "counted",
                                 ![r].hits = TotalHits(st, RacerClient(r), flight[r].left),
                                 ![r].resetTime = st[RacerClient(r)].resetTime]
     /\ UNCHANGED <<orders, now, tz, resp, requests, limiterMax, authStore, calls>>
     /\ UNCHANGED gatevars
     /\ UNCHANGED <<sent, client, handlers>>

\* totalHits > max: 429, otherwise next()
Decide(r) ==
  /\ flight[r].pc = "counted"
  /\ flight' = [flight EXCEPT ![r].pc = IF flight[r].hits > limiterMax THEN "rejected" ELSE "passed"]
  /\ UNCHANGED <<orders, now, tz, resp, requests, limiterMax, store, authStore, calls>>
  /\ UNCHANGED gatevars
  /\ UNCHANGED <<sent, client, handlers>>

\* the browser's calls of this specification
MaxBrowserCalls == 3

NextRace ==
  \/ \E r \in Racers : Enter(r)
  \/ \E r \in Racers : Count(r)
  \/ \E r \in Racers : Decide(r)
  \/ Len(calls[Browser]) < MaxBrowserCalls /\ ClientCall
  \/ Tick

\* requests overlapping inside limiter (max = SmallMax), and a browser
SpecRace == InitRL /\ [][NextRace]_vars

\* ------------------------------------------------------------- apiClient
\* access tokens Auth0 hands out, the statuses of a response (0: no response
\* arrived), and the pages of the application
AccessTokens == {"eyJ.a", "eyJ.b"}
Statuses40x == {400, 401, 403, 404, 429, 500}
NetworkError == 0
AppPages == {"/", "/login", "/orders"}
MaxPending == 2

\* the request interceptor: the Authorization header of the request
RequestInterceptor(token) == IF token # "" THEN <<"Bearer", token>> ELSE <<>>

\* a response interceptor that leaves localStorage and the location alone
OnError_KeepToken(c, status) ==
  c

\* the response interceptor's error branch: what it does to localStorage and
\* window.location before it rejects
OnError(c, status) ==
  IF status = 401 THEN [c EXCEPT !.token = "", !.location = "/login"] ELSE c

\* setAuthToken(token), and the pages' localStorage.setItem('auth0_token', token)
SetAuthToken(token) ==
  /\ client' = [client EXCEPT !.token = token]
  /\ UNCHANGED <<orders, now, tz, resp, sent, flight, handlers>>
  /\ UNCHANGED rlvars
  /\ UNCHANGED gatevars

\* the user moves to another page
Navigate(page) ==
  /\ client.location # page
  /\ client' = [client EXCEPT !.location = page]
  /\ UNCHANGED <<orders, now, tz, resp, sent, flight, handlers>>
  /\ UNCHANGED rlvars
  /\ UNCHANGED gatevars

\* a call of authAPI, productsAPI or ordersAPI goes out
ApiCall ==
  /\ Len(client.pending) < MaxPending
  /\ client' = [client EXCEPT !.pending = Append(@, RequestInterceptor(client.token))]
  /\ UNCHANGED <<orders, now, tz, resp, sent, flight, handlers>>
  /\ UNCHANGED rlvars
  /\ UNCHANGED gatevars

\* the i-th pending call is answered with a status, or fails without a
\* response: a 2xx response is returned, anything else goes through the error
\* branch and is rejected; no call is sent again
ApiResponse(i, status) ==
  LET after == IF status = 200 THEN client ELSE OnError(client, status)
  IN /\ i \in 1..Len(client.pending)
     /\ client' = [after EXCEPT
                     !.pending = SubSeq(client.pending, 1, i - 1)
                                   \o SubSeq(client.pending, i + 1, Len(client.pending)),
                     !.last = [authorization |-> client.pending[i], status |-> status,
                               sends |-> 1, rejected |-> status # 200]]
     /\ UNCHANGED <<orders, now, tz, resp, sent, flight, handlers>>
     /\ UNCHANGED rlvars
     /\ UNCHANGED gatevars

NextClient ==
  \/ \E t \in AccessTokens \cup {""} : SetAuthToken(t)
  \/ \E page \in AppPages : Navigate(page)
  \/ ApiCall
  \/ \E i \in 1..MaxPending, status \in Statuses40x \cup {200, NetworkError} : ApiResponse(i, status)

\* the browser talking to the API
SpecClient == InitAuth /\ [][NextClient]_vars

\* ------------------------------------------------- requests at the gate
\* A request reaches a route: where verifyToken stands before the handler and
\* does not call next(), the 401 is the answer and the handler does not run;
\* otherwise the handler runs, with req.user set where verifyToken ran.
Request(route, header) ==
  LET v == verifyToken(header, nodeEnv)
  IN /\ gate' =
          IF route.verify /\ ~v.ok
          THEN [route |-> route, header |-> header, by |-> "verifyToken", handler |-> FALSE,
                sub |-> NoUser, status |-> v.status, error |-> v.error,
                details |-> v.details, stack |-> ""]
          ELSE [route |-> route, header |-> header, by |-> "", handler |-> TRUE,
                sub |-> IF route.verify THEN v.sub ELSE NoUser,
                status |-> 0, error |-> "", details |-> "", stack |-> ""]
     /\ UNCHANGED <<orders, now, tz, resp, nodeEnv>>
     /\ UNCHANGED rlvars
     /\ UNCHANGED sent
     /\ UNCHANGED auxvars

\* errors handed to next(err): of cors ('Not allowed by CORS', no status) and
\* of express.json (a status of its own)
Errors ==
  {[message |-> "Not allowed by CORS", status |-> 0, stack |-> "Error: Not allowed by CORS at origin"],
   [message |-> "request entity too large", status |-> 413, stack |-> "PayloadTooLargeError at readStream"]}

\* app.use((err, req, res, next) => ...): the error handling middleware
ErrorHandler(route, header, err) ==
  LET isDevelopment == nodeEnv = "development"
  IN /\ gate' = [route |-> route, header |-> header, by |-> "errorHandler", handler |-> FALSE,
                 sub |-> NoUser,
                 status |-> IF err.status # 0 THEN err.status ELSE 500,
                 error |-> IF isDevelopment THEN err.message ELSE "Internal Server Error",
                 details |-> "",
                 stack |-> IF isDevelopment THEN err.stack ELSE ""]
     /\ UNCHANGED <<orders, now, tz, resp, nodeEnv>>
     /\ UNCHANGED rlvars
     /\ UNCHANGED sent
     /\ UNCHANGED auxvars

InitGate ==
  /\ orders = <<>>
  /\ now = ParseDate(FirstDay)
  /\ tz = 0
  /\ resp = NoResponse
  /\ requests = <<>>
  /\ limiterMax = DefaultMax
  /\ store = EmptyStore
  /\ authStore = EmptyStore
  /\ calls = NoCalls
  /\ nodeEnv \in NodeEnvs
  /\ gate = NoGate
  /\ sent = <<>>
  /\ flight = NoFlights
  /\ client = NoClient
  /\ handlers = NoHandlers

NextGate ==
  \/ \E route \in Endpoints, header \in Headers : Request(route, header)
  \/ \E route \in Endpoints, header \in Headers, err \in Errors : ErrorHandler(route, header, err)

\* the routers behind the rate limiters, one request after the other
SpecGate == InitGate /\ [][NextGate]_vars

\* =================================================================== claims
\* the request being answered names a stored order
OnStoredOrder == resp.id \in 1..Len(orders)

\* a step in which a request of one of the methods arrives and is answered
Answers(methods) == Idle /\ resp'.method \in methods

\* the day a stored delivery date names
CalendarDay(t) == t \div DayLen

\* C1: a GET, PUT or DELETE on a stored order by an authenticated user who
\* is not its owner is answered 403, whatever the order's status and the
\* request's body, and leaves the collection as it was.
C1_CrossUserForbidden ==
  [][(/\ Answers({"GET", "PUT", "DELETE"})
      /\ resp'.user \in Users
      /\ resp'.id \in 1..Len(orders)
      /\ orders[resp'.id].userId # resp'.user)
     => (resp'.code = 403 /\ orders' = orders)]_vars

\* C2: in every reachable state every stored order has
\* totalPrice = unitPrice * quantity.
C2_TotalPrice ==
  \A i \in 1..Len(orders) : orders[i].totalPrice = orders[i].unitPrice * orders[i].quantity

\* an order has been written by a PUT or a DELETE of the API
C2_Witness ==
  /\ resp.method \in {"PUT", "DELETE"}
  /\ resp.code = 200
  /\ OnStoredOrder
  /\ orders[resp.id].totalPrice > 0

\* C3: every stored order has an order number, and no step (update and
\* cancel among them) changes the order number of a stored order or removes
\* the order.
C3_OrderNumberStable ==
  [][\A i \in 1..Len(orders) :
       /\ orders[i].orderNumber # <<>>
       /\ Len(orders') >= i
       /\ orders'[i].orderNumber = orders[i].orderNumber]_vars

\* an order cancelled at a later instant than the one its number was
\* generated at: the hook has run again and the number is the old one
C3_Witness ==
  /\ resp.method = "DELETE"
  /\ resp.code = 200
  /\ OnStoredOrder
  /\ orders[resp.id].orderNumber[2] < orders[resp.id].updatedAt

StatusConflict == "Order cannot be modified in its current status."

C5_OwnerCancelSucceeds ==
  [][(/\ Answers({"DELETE"})
      /\ tz = 0
      /\ resp'.id \in 1..Len(orders)
      /\ orders[resp'.id].userId = resp'.user
      /\ orders[resp'.id].status \in {"pending", "confirmed", "processing"})
     => (/\ resp'.code = 200
         /\ Len(orders') = Len(orders)
         /\ orders'[resp'.id].status = "cancelled")]_vars

\* C6: a POST, or a PUT by the owner of a stored order that may still be
\* modified, whose message is <script>alert(1)</script> is rejected with
\* "Validation failed" and writes nothing.
C6_ScriptMessageRejected ==
  [][(/\ Answers({"POST", "PUT"})
      /\ resp'.user \in Users
      /\ "message" \in DOMAIN resp'.body
      /\ resp'.body.message = <<OpenTag, Text, CloseTag>>
      /\ resp'.method = "PUT"
            => /\ resp'.id \in 1..Len(orders)
               /\ orders[resp'.id].userId = resp'.user
               /\ orders[resp'.id].status \in {"pending", "confirmed"})
     => (/\ resp'.code = 400
         /\ resp'.error = "Validation failed"
         /\ orders' = orders)]_vars

DateMessages ==
  {"Invalid value", "Delivery date must be today or in the future",
   "Delivery date cannot be Sunday", SchemaMessage("deliveryDate")}

\* C7: on POST and on PUT a delivery date "yyyy-MM-dd" is accepted exactly
\* when the day it names is on or after the server's current day and is
\* not a Sunday.
C7_DateAcceptedIff ==
  (/\ resp.method \in {"POST", "PUT"}
   /\ resp.user \in Users
   /\ "deliveryDate" \in DOMAIN resp.body
   /\ resp.body.deliveryDate.iso)
  => ((resp.details \cap DateMessages = {})
      <=> (/\ resp.body.deliveryDate.day >= LocalDay(now, tz)
           /\ GetDay(resp.body.deliveryDate.day) # 0))

\* C8: whenever a POST, PUT or DELETE has written an order, the day the
\* order's delivery date names is, at that instant, on or after the current
\* day and not a Sunday.  Stated for a server in UTC, where the validators
\* compare the days the dates name.
C8_EveryWriteValidDate ==
  (/\ resp.method \in {"POST", "PUT", "DELETE"}
   /\ tz = 0
   /\ resp.code \in {200, 201})
  => (/\ CalendarDay(orders[resp.id].deliveryDate) >= LocalDay(now, tz)
      /\ GetDay(CalendarDay(orders[resp.id].deliveryDate)) # 0)

\* ----------------------------------------------------------- rate limits
\* A window opens with call i of the list L when every earlier call lies a
\* window or more before it.
Opens(L, i, W) == \A j \in 1..(i - 1) : L[i].t - L[j].t >= W

\* Of the calls from an opening call on, those within the window are let
\* through up to the N-th and the (N+1)-th is not; the first call after the
\* window has elapsed is let through.
WindowLaw(L, N, W, Passed(_)) ==
  \A i \in 1..Len(L) :
    Opens(L, i, W) =>
      /\ \A k \in i..Len(L) :
           (k - i <= N /\ L[k].t - L[i].t < W) => (Passed(L[k]) <=> k - i < N)
      /\ \A k \in (i + 1)..Len(L) :
           (/\ L[k].t - L[i].t >= W
            /\ \A m \in i..(k - 1) : L[m].t - L[i].t < W) => Passed(L[k])

\* C9: for the RateLimiter of the browser and, client by client, for limiter:
\* of N+1 calls within one window the first N are let through and the
\* (N+1)-th is refused, and the first call after the window is let through.
C9_WindowBudget ==
  /\ WindowLaw(calls[Browser], ClientMaxRequests, ClientWindowTicks,
               LAMBDA e : e.result = "passed")
  /\ \A c \in Clients :
       WindowLaw(calls[c], limiterMax, WindowTicks,
                 LAMBDA e : e.result # "429 limiter")

\* limiter has refused the (N+1)-th request of a client within a window and
\* let its next request through after the window, and has meanwhile let a
\* request of the other client through
C9_Witness ==
  \E c \in Clients, d \in Clients :
    /\ c # d
    /\ Len(calls[c]) = limiterMax + 2
    /\ \A k \in 1..(limiterMax + 1) : calls[c][k].t - calls[c][1].t < WindowTicks
    /\ calls[c][limiterMax + 1].result = "429 limiter"
    /\ calls[c][limiterMax + 2].t - calls[c][1].t >= WindowTicks
    /\ calls[c][limiterMax + 2].result # "429 limiter"
    /\ \E k \in 1..Len(calls[d]) :
         /\ calls[d][k].t = calls[c][limiterMax + 1].t
         /\ calls[d][k].result # "429 limiter"

\* the /api/auth requests of client c that reached authRateLimit
AuthCalls(c) ==
  {k \in 1..Len(calls[c]) :
     calls[c][k].route = "auth" /\ calls[c][k].result # "429 limiter"}

\* C10: authRateLimit refuses no request outside /api/auth; a client none of
\* whose /api/auth requests has failed or is still unanswered has had none
\* refused by authRateLimit; and limiter has counted every request of the
\* client's current window.
C10_OnlyFailuresCount ==
  \A c \in Clients :
    /\ \A k \in 1..Len(calls[c]) :
         calls[c][k].route # "auth" => calls[c][k].result # "429 authRateLimit"
    /\ (\A k \in AuthCalls(c) : calls[c][k].result \notin {"in flight", "4xx"})
         => (\A k \in AuthCalls(c) : calls[c][k].result # "429 authRateLimit")
    /\ store[c].resetTime > now
         => store[c].hits =
              Cardinality({k \in 1..Len(calls[c]) :
                             calls[c][k].t >= store[c].resetTime - WindowTicks})

\* the /api/auth requests of client c since instant t that authRateLimit has
\* refused or let through without a successful response having been sent
Unsuccessful(c, t) ==
  {k \in AuthCalls(c) : calls[c][k].t >= t /\ calls[c][k].result # "2xx"}

\* C10, amended: authRateLimit refuses no request outside /api/auth and is
\* not touched by one; its count for a client never exceeds the client's
\* /api/auth requests of the window that have failed, been refused or are
\* still unanswered, and it refuses a request only when AuthMax of them
\* precede it; limiter counts every request of the client's current window.
C10_UnansweredCount ==
  [][\A c \in Clients :
       /\ Len(calls'[c]) = Len(calls[c]) + 1 =>
            LET e == calls'[c][Len(calls'[c])]
            IN /\ e.route # "auth" =>
                    e.result # "429 authRateLimit" /\ authStore' = authStore
               /\ e.result = "429 authRateLimit" =>
                    Cardinality(Unsuccessful(c, now - AuthWindowTicks + 1)) >= AuthMax
       /\ authStore'[c].resetTime > now' =>
            authStore'[c].hits <=
              Cardinality({k \in 1..Len(calls'[c]) :
                 /\ calls'[c][k].route = "auth"
                 /\ calls'[c][k].result \notin {"429 limiter", "2xx"}
                 /\ calls'[c][k].t >= authStore'[c].resetTime - AuthWindowTicks})
       /\ store'[c].resetTime > now' =>
            store'[c].hits =
              Cardinality({k \in 1..Len(calls'[c]) :
                             calls'[c][k].t >= store'[c].resetTime - WindowTicks})
    ]_vars

\* authRateLimit has refused a request of a client who has a failed and an
\* unanswered /api/auth request in the window
C10_Witness ==
  \E c \in Clients :
    /\ \E k \in AuthCalls(c) : calls[c][k].result = "429 authRateLimit"
    /\ \E k \in AuthCalls(c) : calls[c][k].result = "4xx"
    /\ \E k \in AuthCalls(c) : calls[c][k].result = "in flight"

\* ------------------------------------------------------------- the gate
\* the header carries a bearer token that stands the verification
GoodHeader(header) ==
  /\ header.scheme = "Bearer "
  /\ header.token # EmptyToken
  /\ header.token.sig /\ header.token.iss /\ header.token.aud

C12_StageOrder ==
  [][Answers({"GET", "POST", "PUT", "DELETE"})
     => /\ resp'.user = NoUser => (resp'.code = 401 /\ orders' = orders)
        /\ (/\ resp'.user \in Users
            /\ resp'.method \in {"GET", "PUT", "DELETE"}
            /\ resp'.id \in 1..Len(orders)
            /\ orders[resp'.id].userId # resp'.user)
           => resp'.error # "Validation failed"]_vars

\* --------------------------------------------------------- GET responses
\* C13: no order in the body of a response of an order endpoint carries the
\* client's IP address, user-agent or session id.
C13_NoMetadataSent ==
  \A k \in 1..Len(sent) :
    DOMAIN sent[k].metadata \cap {"ipAddress", "userAgent", "sessionId"} = {}

\* the caller's stored orders that a status filter value selects
Matching(userId, status) ==
  {i \in 1..Len(orders) : orders[i].userId = userId /\ (status # "" => orders[i].status = status)}

\* C14: whatever status filter GET /orders is given, the orders returned are
\* the caller's and have that status, totalOrders counts the caller's orders
\* with that status, totalPages is ceil(totalOrders / limit), and the page
\* holds at most limit orders.
C14_ListConsistent ==
  (resp.method = "GET /" /\ resp.code = 200) =>
    LET q == resp.body
        pg == resp.details
    IN /\ \A k \in 1..Len(sent) :
            /\ sent[k].userId = resp.user
            /\ q.status # "" => sent[k].status = q.status
       /\ pg.totalOrders = Cardinality(Matching(resp.user, q.status))
       /\ pg.totalPages * q.limit >= pg.totalOrders
       /\ (pg.totalPages - 1) * q.limit < pg.totalOrders \/ pg.totalOrders = 0
       /\ Len(sent) <= q.limit

\* ------------------------------------------------------------- creation
\* C15: a POST of an authenticated caller whose body passes the field
\* validation is answered 201 and has stored one new order that is pending,
\* owned by the caller, numbered and priced.
C15_ValidPostCreates ==
  (/\ resp.method = "POST"
   /\ resp.user # NoUser
   /\ CreateValidationErrors(sanitizeInput(resp.body), now, tz) = {}) =>
    /\ resp.code = 201
    /\ resp.id = Len(orders)
    /\ orders[resp.id].status = "pending"
    /\ orders[resp.id].userId = resp.user
    /\ orders[resp.id].totalPrice = orders[resp.id].unitPrice * orders[resp.id].quantity

\* what router.post('/') answers and stores for a body, the caller verified
CreateOutcome(user, rawBody, suffix) ==
  LET body == sanitizeInput(rawBody)
      errs == CreateValidationErrors(body, now, tz)
      res == Save(OrderData(user, body, now), now, tz, suffix)
      duplicate == \E i \in 1..Len(orders) : orders[i].orderNumber = res.doc.orderNumber
  IN IF errs # {} THEN [code |-> 400, details |-> errs, orders |-> orders]
     ELSE IF ~res.ok
       THEN [code |-> 400, details |-> {SchemaMessage(p) : p \in res.errors}, orders |-> orders]
     ELSE IF duplicate THEN [code |-> 500, details |-> {}, orders |-> orders]
     ELSE [code |-> 201, details |-> {}, orders |-> Append(orders, res.doc)]

WithoutClientDecided(body) == [k \in DOMAIN body \ ClientDecided |-> body[k]]

\* C16: a POST whose body names unitPrice, totalPrice, userId, status or
\* orderNumber is answered, and changes the collection, exactly as the same
\* body without those fields; a document it stores has the caller as owner,
\* the catalog price, status pending and a number other than the one sent.
C16_ClientDecidesNothing ==
  [][(/\ resp.method = "none"
      /\ resp'.method = "POST"
      /\ resp'.user # NoUser
      /\ DOMAIN resp'.body \cap ClientDecided # {}) =>
       /\ \E sfx \in Suffixes :
            LET o == CreateOutcome(resp'.user, WithoutClientDecided(resp'.body), sfx)
            IN /\ resp'.code = o.code
               /\ resp'.details = o.details
               /\ orders' = o.orders
       /\ Len(orders') > Len(orders) =>
            LET doc == orders'[Len(orders')]
            IN /\ doc.userId = resp'.user
               /\ doc.unitPrice = PRODUCT_PRICES[doc.productName]
               /\ doc.totalPrice = doc.unitPrice * doc.quantity
               /\ doc.status = "pending"
               /\ Has(resp'.body, "orderNumber") => doc.orderNumber # resp'.body.orderNumber]_vars

\* a POST naming all five fields was handled, and the save saw neither the
\* order number nor the total price of the body
C16_Witness ==
  /\ resp.method = "POST"
  /\ resp.user = "auth0|alice"
  /\ ClientDecided \subseteq DOMAIN resp.body
  /\ resp.body.userId = "auth0|bob"
  /\ resp.details = {"Path orderNumber is required.", "Path totalPrice is required."}

\* ------------------------------------------------------------- sanitizer
\* C17: in the body sanitizeInput hands to the next stage no string holds a
\* script tag, a javascript: prefix or an on<word>= attribute.
C17_SanitizedClean ==
  (resp.method \in {"POST", "PUT"} /\ Has(resp.body, "message")) =>
    ~XssPattern(sanitizeInput(resp.body).message)

\* --------------------------------------------------------- error details
\* C18: the 401 of verifyToken for a token that fails verification carries
\* the message of the verification error, and the answer of the error
\* handler carries the message and stack of the error, exactly when NODE_ENV
\* is 'development'; otherwise the answer holds the generic message alone.
C18_DetailsOnlyInDevelopment ==
  /\ (gate.by = "verifyToken" /\ gate.error = "Invalid token") =>
       IF nodeEnv = "development"
       THEN gate.details # "" /\ gate.details = jwtVerify(gate.header.token)
       ELSE gate.details = ""
  /\ (gate.by = "verifyToken" /\ gate.error # "Invalid token") => gate.details = ""
  /\ gate.by = "verifyToken" => gate.stack = ""
  /\ gate.by = "errorHandler" =>
       IF nodeEnv = "development"
       THEN /\ gate.error \in {e.message : e \in Errors}
            /\ gate.stack \in {e.stack : e \in Errors}
       ELSE gate.error = "Internal Server Error" /\ gate.stack = "" /\ gate.details = ""

\* outside development a token with a foreign audience was refused without
\* the reason
C18_Witness ==
  /\ nodeEnv = "test"
  /\ gate.by = "verifyToken"
  /\ ~gate.header.token.aud
  /\ gate.error = "Invalid token"
  /\ gate.details = ""

\* ------------------------------------------------------ concurrent requests
Decided(r) == flight[r].pc \in {"passed", "rejected"}

\* the requests of r's client that store.increment counted in window w
CountedIn(r, w) ==
  {q \in Racers : /\ RacerClient(q) = RacerClient(r)
                  /\ flight[q].pc \in {"counted", "passed", "rejected"}
                  /\ flight[q].resetTime = w}

\* two requests of one client that were both inside limiter with one request
\* left in the open window, were both counted in that window and have been
\* answered, the others counted in that window having been counted before
\* the two arrived
LastSlotRace(r1, r2) ==
  /\ r1 # r2
  /\ RacerClient(r1) = RacerClient(r2)
  /\ Decided(r1) /\ Decided(r2)
  /\ flight[r1].left = 1 /\ flight[r2].left = 1
  /\ flight[r1].window # 0
  /\ flight[r2].window = flight[r1].window
  /\ flight[r1].resetTime = flight[r1].window
  /\ flight[r2].resetTime = flight[r1].window
  /\ Cardinality(CountedIn(r1, flight[r1].window)) = limiterMax + 1

\* the calls of the browser let through within the window before its i-th
PassedBefore(i) ==
  Cardinality({j \in 1..(i - 1) :
                 /\ calls[Browser][j].result = "passed"
                 /\ calls[Browser][i].t - calls[Browser][j].t < ClientWindowTicks})

\* C19: of two requests of one client that are inside limiter together when
\* the client has one request left, one is let through and the other is
\* answered 429, however their steps interleave; and of two calls of
\* canMakeRequest at one instant with one request left, the first is let
\* through and the second refused.
C19_LastSlotOnce ==
  /\ \A r1, r2 \in Racers :
       LastSlotRace(r1, r2) =>
         Cardinality({r \in {r1, r2} : flight[r].pc = "passed"}) = 1
  /\ \A i \in 1..(Len(calls[Browser]) - 1) :
       (/\ calls[Browser][i].t = calls[Browser][i + 1].t
        /\ PassedBefore(i) = ClientMaxRequests - 1) =>
         /\ calls[Browser][i].result = "passed"
         /\ calls[Browser][i + 1].result = "refused"

\* two requests raced for the last slot and one got it
C19_Witness ==
  \E r1, r2 \in Racers :
    /\ LastSlotRace(r1, r2)
    /\ flight[r1].pc = "passed"
    /\ flight[r2].pc = "rejected"
    /\ flight[r1].hits = limiterMax
    /\ flight[r2].hits = limiterMax + 1

\* ------------------------------------------------------------- API client
\* C20: a response with status 401 empties the stored token and sets the
\* location to /login, and a call made while no token is stored carries no
\* Authorization header, so none does until a token is stored again; a
\* response with any other status, or no response, leaves token and location
\* as they are; every call that fails is rejected to its caller after having
\* been sent once.
C20_UnauthorizedClearsToken ==
  [][/\ Len(client'.pending) < Len(client.pending) =>
          /\ client'.last.status = 401 => client'.token = "" /\ client'.location = "/login"
          /\ client'.last.status # 401 =>
               client'.token = client.token /\ client'.location = client.location
          /\ client'.last.status # 200 => client'.last.rejected /\ client'.last.sends = 1
     /\ Len(client'.pending) > Len(client.pending) =>
          /\ client.token = "" => client'.pending[Len(client'.pending)] = <<>>
          /\ client'.token = client.token
     /\ (client'.token # client.token /\ client'.token # "") =>
          client'.pending = client.pending /\ client'.last = client.last]_vars

\* a call that carried a token was answered 401, and the call made after it
\* went out without an Authorization header
C20_Witness ==
  /\ client.last.status = 401
  /\ client.last.authorization \in {<<"Bearer", t>> : t \in AccessTokens}
  /\ client.last.rejected
  /\ client.token = ""
  /\ client.location = "/login"
  /\ client.pending = << <<>> >>

\* ------------------------------------------------- overlapping requests
\* C21: no step changes the delivery date, time, location or message of an
\* order whose status is cancelled, however updates and cancellations overlap.
C21_CancelledFrozen ==
  [][\A i \in 1..Len(orders) :
       orders[i].status = "cancelled" =>
         \A f \in UpdateFields : orders'[i][f] = orders[i][f]]_vars

\* ---------------------------------------------------------- cancellation
CancelConflict == "Order cannot be cancelled in its current status."

\* C22: a DELETE by the owner on an order that is shipped, delivered or
\* cancelled is answered 400 with the status-conflict error, not 403, and
\* changes nothing.
C22_CancelConflict ==
  [][(/\ Answers({"DELETE"})
      /\ resp'.id \in 1..Len(orders)
      /\ orders[resp'.id].userId = resp'.user
      /\ orders[resp'.id].status \in {"shipped", "delivered", "cancelled"})
     => (/\ resp'.code = 400
         /\ resp'.error = CancelConflict
         /\ orders' = orders)]_vars

\* the owner's DELETE on an order that is already cancelled was refused
C22_Witness ==
  /\ resp.method = "DELETE"
  /\ OnStoredOrder
  /\ orders[resp.id].userId = resp.user
  /\ orders[resp.id].status = "cancelled"
  /\ resp.code = 400
  /\ resp.error = CancelConflict

\* ------------------------------------------------------ what a PUT writes
\* a step in which handler h's findByIdAndUpdate is answered 200
UpdateWritten(h) ==
  /\ handlers[h].pc = "findByIdAndUpdate"
  /\ handlers'[h].pc = "answered"
  /\ handlers'[h].code = 200

\* C23: a successful PUT changes, of the order it names, at most updatedAt and
\* those of deliveryDate, deliveryTime, deliveryLocation and message that its
\* body carries, whatever else the body carries, and no other order.
C23_UpdateFrame ==
  [][\A h \in HandlerIds :
       UpdateWritten(h) =>
         /\ Len(orders') = Len(orders)
         /\ \A i \in 1..Len(orders) :
              /\ DOMAIN orders'[i] = DOMAIN orders[i]
              /\ \A p \in DOMAIN orders[i] :
                   orders'[i][p] # orders[i][p] =>
                     /\ i = handlers[h].id
                     /\ p \in (DOMAIN handlers[h].body \cap UpdateFields) \cup {"updatedAt"}]_vars

\* a PUT naming a new delivery time, another status, quantity, owner and
\* creation date has been answered 200 and only the delivery time is new
C23_Witness ==
  \E h \in HandlerIds :
    /\ handlers[h].kind = "PUT"
    /\ handlers[h].code = 200
    /\ handlers[h].body = [deliveryTime |-> "11:00 AM"] @@ FixedFields
    /\ orders[handlers[h].id].deliveryTime = "11:00 AM"
    /\ orders[handlers[h].id].status = "pending"
    /\ orders[handlers[h].id].quantity = 3
    /\ orders[handlers[h].id].userId = "auth0|alice"
    /\ orders[handlers[h].id].createdAt = ParseDate(FirstDay)

\* ------------------------------------------------------- ownership guard
\* C24: enforceOwnership answers 401 to a request without identity; to one
\* with identity it answers 403 exactly when params, body or query carries a
\* userId other than the caller's, and calls next() otherwise.
C24_OwnershipGuard ==
  resp.method = "enforceOwnership" =>
    IF resp.user = NoUser THEN resp.code = 401
    ELSE IF \E loc \in {"params", "body", "query"} :
              resp.body[loc] # "" /\ resp.body[loc] # resp.user
      THEN resp.code = 403
    ELSE resp.code = 0

\* ------------------------------------------------------ the browser's limiter
\* a step in which the browser calls canMakeRequest
BrowserCalls == Len(calls'[Browser]) = Len(calls[Browser]) + 1
Answer == calls'[Browser][Len(calls'[Browser])].result

\* C25: when the list of the RateLimiter holds maxRequests instants, a call
\* is refused as long as the oldest of them is less than a window old and is
\* let through once it is a window old; a refused call is not recorded.
C25_RefusedUntilOldestLeaves ==
  [][BrowserCalls =>
       /\ (Len(requests) = ClientMaxRequests /\ now - requests[1] < ClientWindowTicks) =>
            Answer = "refused" /\ requests' = requests
       /\ (Len(requests) = ClientMaxRequests /\ now - requests[1] >= ClientWindowTicks) =>
            Answer = "passed" /\ requests'[Len(requests')] = now
       /\ Answer = "refused" =>
            /\ Len(requests') <= Len(requests)
            /\ \A k \in 1..Len(requests') : \E j \in 1..Len(requests) : requests[j] = requests'[k]]_vars

\* the browser used up its window at once, was refused a tick later and let
\* through when the window had passed
C25_Witness ==
  /\ Len(calls[Browser]) = ClientMaxRequests + 2
  /\ \A k \in 1..ClientMaxRequests :
       /\ calls[Browser][k].result = "passed"
       /\ calls[Browser][k].t = calls[Browser][1].t
  /\ calls[Browser][ClientMaxRequests + 1].result = "refused"
  /\ calls[Browser][ClientMaxRequests + 1].t > calls[Browser][1].t
  /\ calls[Browser][ClientMaxRequests + 2].result = "passed"
  /\ calls[Browser][ClientMaxRequests + 2].t = calls[Browser][1].t + ClientWindowTicks

\* the calls of the browser let through in the interval of length w from t
PassedIn(t, w) ==
  {k \in 1..Len(calls[Browser]) :
     /\ calls[Browser][k].result = "passed"
     /\ calls[Browser][k].t >= t
     /\ calls[Browser][k].t - t < w}

\* C26: every interval shorter than the window holds at most maxRequests
\* calls that canMakeRequest let through, and the list of the RateLimiter
\* never holds more than maxRequests instants.
C26_AtMostMaxPerWindow ==
  /\ Len(requests) <= ClientMaxRequests
  /\ \A i \in 1..Len(calls[Browser]) :
       Cardinality(PassedIn(calls[Browser][i].t, ClientWindowTicks)) <= ClientMaxRequests

\* maxRequests calls were let through in one window, a further one refused,
\* and the list is full
C26_Witness ==
  /\ Len(requests) = ClientMaxRequests
  /\ \E i \in 1..Len(calls[Browser]) :
       /\ calls[Browser][i].result = "refused"
       /\ Cardinality(PassedIn(calls[Browser][i].t - ClientWindowTicks + 1, ClientWindowTicks))
            = ClientMaxRequests
  /\ \E i, j \in 1..Len(calls[Browser]) :
       /\ calls[Browser][i].result = "passed"
       /\ calls[Browser][j].result = "passed"
       /\ calls[Browser][j].t > calls[Browser][i].t

\* --------------------------------------------------- what requests change
ApiMethods == {"POST", "PUT", "DELETE", "GET"}

\* C27: a request changes the status of a stored order only when it is a
\* DELETE answered 200, which makes it cancelled; an order a request stores
\* is pending; so a cancelled order stays cancelled under every request.
C27_OnlyCancelChangesStatus ==
  [][Answers(ApiMethods) =>
       /\ Len(orders') >= Len(orders)
       /\ \A i \in 1..Len(orders) :
            /\ orders'[i].status # orders[i].status =>
                 /\ resp'.method = "DELETE"
                 /\ resp'.code = 200
                 /\ resp'.id = i
                 /\ orders'[i].status = "cancelled"
            /\ orders[i].status = "cancelled" => orders'[i].status = "cancelled"
       /\ \A i \in (Len(orders) + 1)..Len(orders') : orders'[i].status = "pending"]_vars

\* a confirmed order was updated by its owner and is still confirmed
C27_Witness ==
  /\ resp.method = "PUT"
  /\ resp.code = 200
  /\ OnStoredOrder
  /\ orders[resp.id].status = "confirmed"
  /\ orders[resp.id].updatedAt = now
  /\ DOMAIN resp.body # {}

\* C30: a request answered with an error status leaves every stored order as
\* it was, and no request removes an order.
C30_ErrorsWriteNothing ==
  [][Answers(ApiMethods) =>
       /\ resp'.code \in {400, 401, 403, 404, 429, 500} => orders' = orders
       /\ Len(orders') >= Len(orders)
       /\ \A i \in 1..Len(orders) : orders'[i].orderNumber = orders[i].orderNumber]_vars

\* the owner's DELETE of a pending order failed with 500 and the order is
\* still pending
C30_Witness ==
  /\ resp.method = "DELETE"
  /\ resp.code = 500
  /\ OnStoredOrder
  /\ orders[resp.id].userId = resp.user
  /\ orders[resp.id].status = "pending"

\* ------------------------------------------------------ what a user reads
\* the orders of a user, in the order of the collection
OwnOrders(user) == SelectSeq(orders, LAMBDA o : o.userId = user)

\* C28: what GET /orders and GET /orders/stats answer to a user is what they
\* would answer if the collection held that user's orders alone.
C28_OwnOrdersOnly ==
  /\ (resp.method = "GET /" /\ resp.code = 200) =>
       LET alone == ListBody(OwnOrders(resp.user), resp.user, resp.body, now, tz)
       IN /\ sent = alone.orders
          /\ resp.details.totalOrders = alone.pagination.totalOrders
          /\ resp.details.totalPages = alone.pagination.totalPages
          /\ resp.details.upcomingOrders = alone.upcomingOrders
          /\ resp.details.pastOrders = alone.pastOrders
  /\ (resp.method = "GET /stats" /\ resp.code = 200) =>
       resp.details = StatsBody(OwnOrders(resp.user), resp.user, now)

\* bob reads his list while both of alice's orders have moved on
C28_Witness ==
  /\ resp.method = "GET /"
  /\ resp.code = 200
  /\ resp.user = "auth0|bob"
  /\ resp.body.status = ""
  /\ Len(sent) = 1
  /\ \A i \in 1..Len(orders) : orders[i].userId = "auth0|alice" => orders[i].status = "shipped"

\* C29: in the answer of GET /orders every order of the page is in exactly
\* one of upcomingOrders and pastOrders, and in upcomingOrders exactly when
\* the day its delivery date names is on or after the server's current day
\* and its status is pending, confirmed, processing or shipped.
C29_UpcomingPastPartition ==
  (resp.method = "GET /" /\ resp.code = 200) =>
    \A k \in 1..Len(sent) :
      LET up == \E j \in 1..Len(resp.details.upcomingOrders) : resp.details.upcomingOrders[j] = k
          past == \E j \in 1..Len(resp.details.pastOrders) : resp.details.pastOrders[j] = k
      IN /\ up # past
         /\ up <=> (/\ CalendarDay(sent[k].deliveryDate) >= LocalDay(now, tz)
                    /\ sent[k].status \in ActiveStatuses)

====
